---- MODULE Spec2Model ----
(***************************************************************************)
(* Model of the handbook crawler (src/ingestion/crawler.py) and of the     *)
(* section classifier of the cleaner (src/ingestion/cleaner.py).           *)
(*                                                                         *)
(* A URL string is a sequence of tokens.  A token is either one of the     *)
(* delimiter characters that urllib.parse looks at (":", "/", "?", "#",    *)
(* ".", " ", "[") or a word: a non-empty run of letters or of digits (the  *)
(* two host names are words that also hold dots).  All parsing below       *)
(* works on the tokens the way urllib works on characters.                 *)
(***************************************************************************)
EXTENDS Integers, Sequences, FiniteSets, TLC

VARIABLES
    manifest,      \* manifest.jsonl: the content of the file, a sequence of chunks
    ledger,        \* history: the records appended to manifest.jsonl, in order
    dirs,          \* the directories that exist at and below the output directory
    pages,         \* the files of pages_dir: file name -> content
    sessions,      \* number of crawl() calls started so far
    startLen,      \* number of manifest records when the running crawl() began
    seeds,         \* crawl(): the seeds argument of the running session
    max_pages,     \* cfg.max_pages of the running session
    retries,       \* cfg.retries of the running session
    crawled_urls,  \* crawl(): crawled_urls
    seen,          \* crawl(): seen
    queue,         \* crawl(): queue (work queue), FIFO of urls
    unfinished,    \* queue._unfinished_tasks (put: +1, task_done: -1)
    discovered,    \* crawl(): discovered, FIFO of urls
    scheduled,     \* crawl(): scheduled
    spc,           \* position of the crawl() coroutine
    wpc,           \* position of each worker() task
    wurl,          \* worker(): url
    attempt,       \* fetch_with_retries(): attempt
    last,          \* outcome of the latest client.get of the fetch in progress
    pushed,        \* history: urls put on the work queue in this session
    admitted,      \* history: urls added to seen in this session
    gets,          \* history: url -> number of client.get calls in this session
    hist,          \* history: url -> outcomes of its client.get calls
    refused,       \* history: |admitted| at each refusal of an unseen in-scope url
    input,         \* the url string handed to normalize_url and to is_allowed
    output         \* what the calls on input returned

vars == <<manifest, ledger, dirs, pages, sessions, startLen, seeds, max_pages,
          retries, crawled_urls, seen,
          queue, unfinished, discovered, scheduled, spc, wpc, wurl, attempt,
          last, pushed, admitted, gets, hist, refused, input, output>>

(***************************************************************************)
(* Bounds                                                                  *)
(***************************************************************************)
MaxSessions == 2
MaxBudget == 3
MaxRetries == 1
NumWorkers == 2

Workers == 1..NumWorkers

(***************************************************************************)
(* src/ingestion/config.py                                                 *)
(***************************************************************************)
ALLOWED_HOST == <<"about.gitlab.com">>
ALLOWED_PREFIX == <<"/", "handbook", "/">>

\* the alternatives of the regular expression in is_allowed
AssetExtensions ==
    {"png", "jpg", "jpeg", "gif", "svg", "webp", "css", "js", "pdf", "zip",
     "mp4", "mov", "webm"}

(***************************************************************************)
(* Strings                                                                 *)
(***************************************************************************)
Words == {"https", "http", "about.gitlab.com", "evil.com", "handbook",
          "finance", "a", "e", "b", "png", "PNG", "top", "about", "443"}

\* characters allowed in a scheme: letters, digits, "+", "-", "."
SchemeChars == Words \cup {"."}

\* str.lower()
LowerTok(t) == IF t = "PNG" THEN "png" ELSE t

LowerStr(s) == [i \in 1..Len(s) |-> LowerTok(s[i])]

\* position of the first token of s that is in T, 0 when there is none
FirstIdx(s, T) ==
    IF \E i \in 1..Len(s) : s[i] \in T
    THEN CHOOSE i \in 1..Len(s) : s[i] \in T /\ \A j \in 1..(i - 1) : s[j] \notin T
    ELSE 0

\* position of the last token of s that is in T, 0 when there is none
LastIdx(s, T) ==
    IF \E i \in 1..Len(s) : s[i] \in T
    THEN CHOOSE i \in 1..Len(s) : s[i] \in T /\ \A j \in (i + 1)..Len(s) : s[j] \notin T
    ELSE 0

StartsWith(s, p) == Len(s) >= Len(p) /\ SubSeq(s, 1, Len(p)) = p

From(s, i) == SubSeq(s, i, Len(s))

\* The one element of a singleton.  Writing Only({F(x) : x \in {e}}) computes
\* e once and hands its value to F, however often F looks at x.
Only(S) == CHOOSE x \in S : TRUE

StripValue(s) ==
    LET nonsp == {i \in 1..Len(s) : s[i] # " "}
    IN  IF nonsp = {} THEN << >>
        ELSE SubSeq(s, CHOOSE i \in nonsp : \A j \in nonsp : i <= j,
                       CHOOSE i \in nonsp : \A j \in nonsp : i >= j)

\* str.strip()
strip(s0) == Only({StripValue(s) : s \in {s0}})

LstripValue(s) ==
    LET nonsp == {i \in 1..Len(s) : s[i] # " "}
    IN  IF nonsp = {} THEN << >>
        ELSE From(s, CHOOSE i \in nonsp : \A j \in nonsp : i <= j)

\* str.lstrip(): urlsplit removes leading blanks
lstrip(s0) == Only({LstripValue(s) : s \in {s0}})

(***************************************************************************)
(* urllib.parse                                                            *)
(***************************************************************************)
\* urlsplit: "scheme:" at the head of url
SplitScheme(url) ==
    LET c == FirstIdx(url, {":"})
    IN  IF /\ c > 1
           /\ url[1] \in Words
           /\ \A j \in 1..(c - 1) : url[j] \in SchemeChars
        THEN [scheme |-> LowerStr(SubSeq(url, 1, c - 1)), rest |-> From(url, c + 1)]
        ELSE [scheme |-> << >>, rest |-> url]

\* urlsplit: "//netloc" at the head of url, up to the first of / ? #
SplitNetloc(url) ==
    LET d == FirstIdx(From(url, 3), {"/", "?", "#"})
    IN  IF ~StartsWith(url, <<"/", "/">>) THEN [netloc |-> << >>, rest |-> url]
        ELSE IF d = 0 THEN [netloc |-> From(url, 3), rest |-> << >>]
        ELSE [netloc |-> SubSeq(url, 3, d + 1), rest |-> From(url, d + 2)]

\* urlsplit: "#fragment"
SplitFragment(url) ==
    LET h == FirstIdx(url, {"#"})
    IN  IF h = 0 THEN [fragment |-> << >>, rest |-> url]
        ELSE [fragment |-> From(url, h + 1), rest |-> SubSeq(url, 1, h - 1)]

\* urlsplit: "?query"; what is left is the path
SplitQuery(url) ==
    LET q == FirstIdx(url, {"?"})
    IN  IF q = 0 THEN [query |-> << >>, path |-> url]
        ELSE [query |-> From(url, q + 1), path |-> SubSeq(url, 1, q - 1)]

urlparse(url0) ==
    Only(UNION UNION UNION
        {{{{[scheme |-> a.scheme, netloc |-> b.netloc, path |-> d.path,
             query |-> d.query, fragment |-> c.fragment]
            : d \in {SplitQuery(c.rest)}}
           : c \in {SplitFragment(b.rest)}}
          : b \in {SplitNetloc(a.rest)}}
         : a \in {SplitScheme(lstrip(url0))}})

\* every scheme used here (http, https) is in uses_netloc
urlunparse(scheme, netloc, path, query, fragment) ==
    LET u1 == IF netloc # << >> \/ (scheme # << >> /\ ~StartsWith(path, <<"/", "/">>))
              THEN <<"/", "/">> \o netloc
                   \o (IF path # << >> /\ path[1] # "/" THEN <<"/">> ELSE << >>)
                   \o path
              ELSE path
        u2 == IF scheme # << >> THEN scheme \o <<":">> \o u1 ELSE u1
        u3 == IF query # << >> THEN u2 \o <<"?">> \o query ELSE u2
    IN  IF fragment # << >> THEN u3 \o <<"#">> \o fragment ELSE u3

\* urljoin: the directory of the base path, for a relative reference
DirOf(path) ==
    LET i == LastIdx(path, {"/"})
    IN  IF i = 0 THEN <<"/">> ELSE SubSeq(path, 1, i)

\* urljoin on the parsed base b and the parsed reference p0
JoinParsed(base, url, b, p0) ==
    LET scheme == IF p0.scheme = << >> THEN b.scheme ELSE p0.scheme
    IN  IF base = << >> THEN url
        ELSE IF url = << >> THEN base
        ELSE IF scheme # b.scheme \/ scheme \notin {<<"http">>, <<"https">>} THEN url
        ELSE IF p0.netloc # << >>
             THEN urlunparse(scheme, p0.netloc, p0.path, p0.query, p0.fragment)
        ELSE IF p0.path = << >>
             THEN urlunparse(scheme, b.netloc, b.path,
                             IF p0.query = << >> THEN b.query ELSE p0.query,
                             p0.fragment)
        ELSE IF p0.path[1] = "/"
             THEN urlunparse(scheme, b.netloc, p0.path, p0.query, p0.fragment)
        ELSE urlunparse(scheme, b.netloc, DirOf(b.path) \o p0.path, p0.query,
                        p0.fragment)

urljoin(base0, url0) ==
    Only(UNION {{JoinParsed(base, url, urlparse(base), urlparse(url))
                 : url \in {url0}} : base \in {base0}})

(***************************************************************************)
(* crawler.py: pure functions                                              *)
(***************************************************************************)
\* lines 70-86, on the stripped url and its parse
NormalizeParsed(url, parsed) ==
    LET netloc == IF parsed.netloc # << >> THEN parsed.netloc ELSE ALLOWED_HOST
        path == IF parsed.path = <<"/", "handbook">>
                THEN <<"/", "handbook", "/">> ELSE parsed.path
    IN  IF url = << >> THEN url
        ELSE urlunparse(<<"https">>, netloc, path, << >>, << >>)

normalize_url(url0) ==
    Only(UNION {{NormalizeParsed(url, parsed) : parsed \in {urlparse(url)}}
                : url \in {strip(url0)}})

HasAssetExtension(path) ==
    /\ Len(path) >= 2
    /\ path[Len(path) - 1] = "."
    /\ LowerTok(path[Len(path)]) \in AssetExtensions

\* urlsplit raises ValueError("Invalid IPv6 URL") for a netloc with one
\* kind of square bracket only
urlparse_raises(url) ==
    \E nl \in {SplitNetloc(SplitScheme(lstrip(url)).rest).netloc} :
        (\E i \in DOMAIN nl : nl[i] = "[") # (\E i \in DOMAIN nl : nl[i] = "]")

is_allowed(url) ==
    \E p \in {urlparse(url)} :
        /\ ~urlparse_raises(url)
        /\ p.netloc = ALLOWED_HOST
        /\ StartsWith(p.path, ALLOWED_PREFIX)
        /\ ~HasAssetExtension(p.path)

(***************************************************************************)
(* The site that is crawled: url -> the href attributes of its anchors     *)
(***************************************************************************)
Origin == <<"https", ":", "/", "/", "about.gitlab.com">>

UA == Origin \o <<"/", "handbook", "/">>
UB == Origin \o <<"/", "handbook", "/", "a", "/">>
UD == Origin \o <<"/", "handbook", "/", "finance", "/">>
UE == Origin \o <<"/", "handbook", "/", "finance", "/", "a", "/">>
UC == <<"https", ":", "/", "/", "evil.com", "/", "handbook", "/">>

Site ==
    (UA :> << <<" ", "/", "handbook", "/", "a", "/">>,
              UC,
              <<"b", ".", "PNG">>,
              <<"http", ":", "/", "/", "about.gitlab.com", "/", "handbook", "/",
                "a", "/", "#", "top">>,
              <<"/", "about", "/">> >>)
    @@ (UB :> << <<"/", "handbook", "/", "finance", "/", "a", "/">>,
                 <<"/", "handbook">>,
                 <<"/", "handbook", "/", "finance", "/">>,
                 <<"/", "/", "evil.com", "/", "handbook", "/">> >>)
    @@ (UD :> << <<"/", "handbook", "/", "a", "/">>, <<"#", "top">>,
                 <<"a", "/">> >>)
    @@ (UE :> << >>)

\* the hrefs of the page a successful fetch of url returns
Html(url) == IF url \in DOMAIN Site THEN Site[url] ELSE << >>

\* the seed lists a session is started with
SeedLists ==
    { << <<"/", "handbook">> >>,
      << UC, << >>, UD,
         <<"http", ":", "/", "/", "about.gitlab.com", "/", "handbook", "/",
           "finance", "/", "#", "top">>,
         <<" ", "/", "handbook", "/", "b", ".", "png">>,
         UB >>,
      << UB, UD, UA >>,
      << UC, <<"/", "about", "/">>, << >> >> }

Range(f) == {f[i] : i \in DOMAIN f}

(***************************************************************************)
(* crawler.py: link extraction and the manifest                            *)
(***************************************************************************)
\* variant of the filter: every resolved link is kept
LinkAllowedAny(abs_url) == TRUE

\* the filter of extract_links
LinkAllowed(abs_url) == is_allowed(abs_url)

extract_links(base_url, html) ==
    {abs_url \in {normalize_url(urljoin(base_url, href))
                    : href \in {strip(html[i]) : i \in DOMAIN html} \ {<< >>}}
        : LinkAllowed(abs_url)}

\* links of every page of the site, computed once
Links == [u \in DOMAIN Site |-> extract_links(u, Site[u])]

LinksOf(url) == IF url \in DOMAIN Site THEN Links[url] ELSE extract_links(url, Html(url))

\* The text of the manifest is a sequence of chunks: the JSON text of one
\* record, or a newline.
NL == [kind |-> "nl"]

\* json.dumps(rec)
Json(rec) == [kind |-> "json", rec |-> rec]

\* variant of the append: the record is written without its newline
WriteNoNewline(file, rec) == file \o <<Json(rec)>>

\* lines 227-228 and 247-248: open for append, write one line, close; no
\* await stands between the three
WriteLine(file, rec) == file \o <<Json(rec), NL>>

\* "for line in f" (line 147) and lines 148-157: a line is the text between
\* two newlines (or an end of the file); json.loads accepts a line that is
\* the text of one record; empty lines and lines that do not parse are
\* passed over.  WholeLineAt(file, i): chunk i is a line of its own and parses.
WholeLineAt(file, i) ==
    /\ file[i].kind = "json"
    /\ (i = 1 \/ file[i - 1].kind = "nl")
    /\ (i = Len(file) \/ file[i + 1].kind = "nl")

\* the records of the lines that parse, in the order of the file
ManifestRecords(file) ==
    LET at == SelectSeq([i \in 1..Len(file) |-> i], LAMBDA i : WholeLineAt(file, i))
    IN  [k \in 1..Len(at) |-> file[at[k]].rec]

\* variants of the manifest load: nothing is loaded; failed records are skipped
LoadNothing(file) == {}

LoadOkOnly(file) ==
    {r.url : r \in {x \in Range(ManifestRecords(file)) : x.status = "ok"}}

\* lines 141-158; the file that does not exist reads as the empty file
load_existing_manifest_urls(file) ==
    {r.url : r \in {x \in Range(ManifestRecords(file)) : x.url # << >>}}

\* Contains(s, sub): "sub in s"
Contains(s, sub) ==
    \E i \in 1..(Len(s) - Len(sub) + 1) : SubSeq(s, i, i + Len(sub) - 1) = sub

SectionDir(name) == <<"/", "handbook", "/", name, "/">>

\* lines 107-118
classify_section(url) ==
    LET path == urlparse(url).path
    IN  IF Contains(path, SectionDir("finance")) THEN "finance"
        ELSE IF Contains(path, SectionDir("security")) THEN "security"
        ELSE IF Contains(path, SectionDir("legal")) THEN "legal"
        ELSE IF Contains(path, SectionDir("people-group")) THEN "people-group"
        ELSE "handbook"

\* str.strip("/")
StripSlashValue(s) ==
    LET keep == {i \in 1..Len(s) : s[i] # "/"}
    IN  IF keep = {} THEN << >>
        ELSE SubSeq(s, CHOOSE i \in keep : \A j \in keep : i <= j,
                       CHOOSE i \in keep : \A j \in keep : i >= j)

\* lines 128-130: the last segment of the path, "index" for the empty path
LastSegment(path) ==
    LET p == StripSlashValue(path)
    IN  IF p = << >> THEN <<"index">> ELSE From(p, LastIdx(p, {"/"}) + 1)

\* lines 133-135 on a segment: every run of characters other than letters,
\* digits, "-", "_" and "." becomes one "-"; "-" is stripped at both ends;
\* lower case; "index" if nothing is left
Slugify(seg) ==
    LET dashed == [i \in 1..Len(seg) |->
                      IF seg[i] \in Words \cup {".", "index"} THEN LowerTok(seg[i]) ELSE "-"]
        kept == {i \in 1..Len(seg) :
                    /\ ~(dashed[i] = "-" /\ i > 1 /\ dashed[i - 1] = "-")
                    /\ \E j \in 1..i : dashed[j] # "-"
                    /\ \E j \in i..Len(seg) : dashed[j] # "-"}
        idx == SelectSeq([i \in 1..Len(seg) |-> i], LAMBDA i : i \in kept)
    IN  IF kept = {} THEN <<"index">> ELSE [k \in 1..Len(idx) |-> dashed[idx[k]]]

\* line 137: the first ten hexadecimal digits of the SHA-256 of the url.
\* The digest is a function of the url alone; the urls met here are taken
\* to have pairwise different digests, so the url stands for its digest.
Sha256Prefix(url) == url

\* variant of the file name: the slug alone, without the digest
SlugOnly(url) == [slug |-> Slugify(LastSegment(urlparse(url).path)), hash |-> << >>]

\* lines 121-138: "<slug>-<digest>.html"
safe_filename_from_url(url) ==
    [slug |-> Slugify(LastSegment(urlparse(url).path)), hash |-> Sha256Prefix(url)]

\* Path.write_text (line 235): the file is created or replaced as a whole
write_text(files, name, text) ==
    [f \in DOMAIN files \cup {name} |-> IF f = name THEN text ELSE files[f]]

(***************************************************************************)
(* src/ingestion/cleaner.py                                                *)
(***************************************************************************)
\* "word in tok" for a token of a file name: of the tokens used here only
\* the section names themselves hold a section word
TokenHolds(tok, word) == tok = word \/ (word = "people" /\ tok = "people-group")

\* "word in path.name.lower()": the name is "<slug>-<digest>.html", and no
\* section word can occur in hexadecimal digits or in "html"
NameHolds(file, word) == \E i \in DOMAIN file.slug : TokenHolds(LowerTok(file.slug[i]), word)

\* lines 79-89
classify_section_from_path(file) ==
    IF NameHolds(file, "finance") THEN "finance"
    ELSE IF NameHolds(file, "security") THEN "security"
    ELSE IF NameHolds(file, "legal") THEN "legal"
    ELSE IF NameHolds(file, "people") THEN "people-group"
    ELSE "handbook"

\* file name and section of every page of the site, computed once
FileNames == [u \in DOMAIN Site |-> safe_filename_from_url(u)]

Sections == [u \in DOMAIN Site |-> classify_section(u)]

FileNameOf(url) == IF url \in DOMAIN Site THEN FileNames[url] ELSE safe_filename_from_url(url)

SectionOf(url) == IF url \in DOMAIN Site THEN Sections[url] ELSE classify_section(url)

\* lines 220-225; fetched_at is left out
FailedRec(url) ==
    [url |-> url, status |-> "failed", section |-> SectionOf(url)]

\* lines 238-245; fetched_at is left out
OkRec(url) ==
    [url |-> url, status |-> "ok", path |-> FileNameOf(url),
     section |-> SectionOf(url), bytes |-> Len(Html(url))]

(***************************************************************************)
(* crawler.py: admission to the seen set                                   *)
(***************************************************************************)
\* variants of the admission test: no budget test, budget off by one, no
\* membership test
CanAdmitNoBudget(link, s, budget) == link \notin s

CanAdmitOffByOne(link, s, budget) == link \notin s /\ Cardinality(s) <= budget

CanAdmitNoDedup(link, s, budget) == Cardinality(s) < budget

\* the test of lines 256 and 279
CanAdmit(link, s, budget) == link \notin s /\ Cardinality(s) < budget

\* variant of the admission: the url is put on the discovered queue and
\* not added to seen
AdmitWithoutAdd(st, link) == [st EXCEPT !.discovered = Append(@, link)]

\* lines 257-258 and 280-281: seen.add, then discovered.put, which does not
\* wait on an unbounded queue
Admit(st, link) ==
    [st EXCEPT !.seen = @ \cup {link}, !.discovered = Append(@, link)]

\* The loops of lines 255-258 and 278-281 over the urls of order, in order:
\* st.seen and st.discovered are the program's, st.refused collects, for
\* every url that was not in seen and yet not admitted, how many urls the
\* session had admitted by then.
RECURSIVE AdmitAll(_, _, _, _)
AdmitAll(order, st, budget, prior) ==
    IF order = << >> THEN st
    ELSE LET link == Head(order)
             next ==
                 IF CanAdmit(link, st.seen, budget)
                 THEN Admit(st, link)
                 ELSE IF link \notin st.seen
                 THEN [st EXCEPT !.refused = @ \cup {Cardinality(st.seen \ prior)}]
                 ELSE st
         IN  Only({AdmitAll(Tail(order), n, budget, prior) : n \in {next}})

\* the orders in which "for link in new_links" may visit a set
Orders(S) ==
    {f \in [1..Cardinality(S) -> S] : \A i, j \in DOMAIN f : f[i] = f[j] => i = j}

\* the orders of the links of every page of the site, computed once
LinkOrders == [u \in DOMAIN Site |-> Orders(Links[u])]

OrdersOf(url) == IF url \in DOMAIN Site THEN LinkOrders[url] ELSE Orders(LinksOf(url))

\* line 277
NormalizedSeeds(sds) ==
    LET kept == SelectSeq(sds, LAMBDA x : x # << >>)
    IN  [i \in 1..Len(kept) |-> normalize_url(kept[i])]

\* lines 277-279: the normalized seeds that pass is_allowed, computed once
\* for every seed list
AllowedSeeds == [sds \in SeedLists |-> SelectSeq(NormalizedSeeds(sds), is_allowed)]

Bump(f, u) == (u :> (IF u \in DOMAIN f THEN f[u] + 1 ELSE 1)) @@ f

Log(f, u, x) == (u :> (IF u \in DOMAIN f THEN Append(f[u], x) ELSE <<x>>)) @@ f

(***************************************************************************)
(* Url strings for the calls of normalize_url and is_allowed on their own  *)
(***************************************************************************)
\* the paths of the strings, among them "/handbook", a relative path, asset
\* names in both cases, and blanks at the end and in the middle
Paths ==
    { << >>,
      <<"/", "handbook">>,
      <<"/", "handbook", "/">>,
      <<"handbook">>,
      <<"/", "handbook", "/", "a", "/">>,
      <<"/", "handbook", "/", "a", ".", "e">>,
      <<"/", "handbook", "/", "b", ".", "png">>,
      <<"/", "handbook", "/", "b", ".", "PNG">>,
      <<"/", "handbook", "/", " ">>,
      <<"/", "handbook", "/", "a", " ", "b">>,
      <<"/", "about", "/">> }

\* a url string by its parts:
\*   [blank] [scheme ":"] ["//" host [":" port]] path ["?" query] ["#" fragment]
UrlParts ==
    {p \in [lead : BOOLEAN,
             scheme : {<< >>, <<"https">>, <<"http">>},
             host : {<< >>, ALLOWED_HOST, <<"evil.com">>, <<"[">>},
             port : {<< >>, <<"443">>},
             path : Paths,
             query : {<< >>, <<"a">>},
             fragment : {<< >>, <<"top">>}] :
        /\ p.host = << >> => p.port = << >>
        /\ p.host # << >> => (p.path = << >> \/ p.path[1] = "/")}

\* the string with these parts
Render(p) ==
    (IF p.lead THEN <<" ">> ELSE << >>)
    \o (IF p.scheme # << >> THEN p.scheme \o <<":">> ELSE << >>)
    \o (IF p.host # << >> THEN <<"/", "/">> \o p.host ELSE << >>)
    \o (IF p.port # << >> THEN <<":">> \o p.port ELSE << >>)
    \o p.path
    \o (IF p.query # << >> THEN <<"?">> \o p.query ELSE << >>)
    \o (IF p.fragment # << >> THEN <<"#">> \o p.fragment ELSE << >>)

NoInput ==
    [lead |-> FALSE, scheme |-> << >>, host |-> << >>, port |-> << >>,
     path |-> << >>, query |-> << >>, fragment |-> << >>]

\* no call made yet
NoOutput ==
    [calls |-> 0, once |-> << >>, twice |-> << >>, raised |-> FALSE, allowed |-> "none"]

(***************************************************************************)
(* The state before the first run: an empty output directory               *)
(***************************************************************************)
InitCrawl ==
    /\ manifest = << >>
    /\ ledger = << >>
    /\ dirs = {}
    /\ pages = << >>
    /\ sessions = 0
    /\ startLen = 0
    /\ seeds = << >>
    /\ max_pages = 0
    /\ retries = 0
    /\ crawled_urls = {}
    /\ seen = {}
    /\ queue = << >>
    /\ unfinished = 0
    /\ discovered = << >>
    /\ scheduled = 0
    /\ spc = "idle"
    /\ wpc = [w \in Workers |-> "cancelled"]
    /\ wurl = [w \in Workers |-> << >>]
    /\ attempt = [w \in Workers |-> 0]
    /\ last = [w \in Workers |-> "none"]
    /\ pushed = << >>
    /\ admitted = {}
    /\ gets = << >>
    /\ hist = << >>
    /\ refused = {}

Init == InitCrawl /\ input = NoInput /\ output = NoOutput

(***************************************************************************)
(* crawl(): the tests at the head of the scheduler loop                    *)
(***************************************************************************)
\* lines 301-306: the two exits of the loop
LoopExits(n, budget, d, q) == n >= budget \/ (d = << >> /\ q = << >>)

\* where crawl() suspends next: in queue.join() (line 328) after a break,
\* else in the bounded wait on the discovered queue (line 310)
AfterTests(n, budget, d, q) == IF LoopExits(n, budget, d, q) THEN "join" ELSE "wait"

(***************************************************************************)
(* main(), lines 363-391                                                   *)
(***************************************************************************)
\* lines 383-384: the directories main() makes before it looks at the seeds
MainDirs == {"out_dir", "pages_dir"}

\* a process can be started when none is running
CanStart == spc \in {"idle", "done", "aborted"} /\ sessions < MaxSessions

\* lines 387-391: no seed is left after the filter, SystemExit is raised.
\* The process ends, crawl() never ran.
main_abort(sds) ==
    /\ CanStart
    /\ AllowedSeeds[sds] = << >>
    /\ dirs' = dirs \cup MainDirs
    /\ spc' = "aborted"
    /\ sessions' = sessions + 1
    /\ startLen' = Len(ledger)
    /\ seeds' = sds
    /\ max_pages' = 0
    /\ retries' = 0
    /\ crawled_urls' = {}
    /\ seen' = {}
    /\ queue' = << >>
    /\ unfinished' = 0
    /\ discovered' = << >>
    /\ scheduled' = 0
    /\ wpc' = [w \in Workers |-> "cancelled"]
    /\ wurl' = [w \in Workers |-> << >>]
    /\ attempt' = [w \in Workers |-> 0]
    /\ last' = [w \in Workers |-> "none"]
    /\ pushed' = << >>
    /\ admitted' = {}
    /\ gets' = << >>
    /\ hist' = << >>
    /\ refused' = {}
    /\ UNCHANGED <<input, output, manifest, ledger, pages>>

(***************************************************************************)
(* main() with a seed left, lines 363-393, and crawl(), lines 264-306, up  *)
(* to the first suspension of the scheduler                                *)
(***************************************************************************)
\* variant of the start: seen starts empty
InitialSeenEmpty(crawled) == {}

\* line 269: seen starts as a copy of the urls of the ledger
InitialSeen(crawled) == crawled

crawl_start(sds, budget, r) ==
    /\ CanStart
    /\ AllowedSeeds[sds] # << >>
    /\ dirs' = dirs \cup MainDirs
    /\ LET crawled == load_existing_manifest_urls(manifest)
           st == AdmitAll(AllowedSeeds[sds],
                          [seen |-> InitialSeen(crawled), discovered |-> << >>,
                           refused |-> {}],
                          budget, crawled)
       IN  /\ crawled_urls' = crawled
           /\ seen' = st.seen
           /\ discovered' = st.discovered
           /\ refused' = st.refused
           /\ admitted' = st.seen \ crawled
           /\ spc' = AfterTests(0, budget, st.discovered, << >>)
    /\ sessions' = sessions + 1
    /\ startLen' = Len(ledger)
    /\ seeds' = sds
    /\ max_pages' = budget
    /\ retries' = r
    /\ queue' = << >>
    /\ unfinished' = 0
    /\ scheduled' = 0
    /\ wpc' = [w \in Workers |-> "get"]
    /\ wurl' = [w \in Workers |-> << >>]
    /\ attempt' = [w \in Workers |-> 0]
    /\ last' = [w \in Workers |-> "none"]
    /\ pushed' = << >>
    /\ gets' = << >>
    /\ hist' = << >>
    /\ UNCHANGED <<input, output, manifest, ledger, pages>>

(***************************************************************************)
(* crawl(): the scheduler loop, lines 299-333.  The loop suspends only in  *)
(* line 310 and in line 328, so the tests of lines 301-306 run in the      *)
(* same step as what precedes them.                                        *)
(***************************************************************************)
sched_pop ==
    /\ spc = "wait"
    /\ discovered # << >>
    /\ LET next_url == Head(discovered)
           skip == next_url \in crawled_urls
           q == IF skip THEN queue ELSE Append(queue, next_url)
           n == IF skip THEN scheduled ELSE scheduled + 1
       IN  /\ discovered' = Tail(discovered)
           /\ queue' = q
           /\ scheduled' = n
           /\ unfinished' = IF skip THEN unfinished ELSE unfinished + 1
           /\ pushed' = IF skip THEN pushed ELSE Append(pushed, next_url)
           /\ spc' = AfterTests(n, max_pages, Tail(discovered), q)
    /\ UNCHANGED <<input, output, manifest, ledger, dirs, pages,
                   sessions, startLen, seeds, max_pages, retries,
                   crawled_urls, seen, wpc, wurl, attempt, last, admitted, gets,
                   hist, refused>>

\* line 310 times out after 0.5 s with nothing discovered; lines 311-312,
\* 301-306
sched_timeout ==
    /\ spc = "wait"
    /\ discovered = << >>
    /\ spc' = AfterTests(scheduled, max_pages, discovered, queue)
    /\ UNCHANGED <<input, output, manifest, ledger, dirs, pages,
                   sessions, startLen, seeds, max_pages, retries,
                   crawled_urls, seen, queue, unfinished, discovered, scheduled,
                   wpc, wurl, attempt, last, pushed, admitted, gets, hist, refused>>

\* variant of the drain-wait: it returns at once
JoinReturnsAtOnce(n) == TRUE

\* queue.join() (line 328) returns when no put item is left unfinished
JoinReturns(n) == n = 0

\* lines 328-335: queue.join() returns, the workers are cancelled (cancel()
\* does nothing to a task that has ended), gather() collects them with
\* return_exceptions=True, "done" is printed
sched_join ==
    /\ spc = "join"
    /\ JoinReturns(unfinished)
    /\ spc' = "done"
    /\ wpc' = [w \in Workers |-> IF wpc[w] = "dead" THEN "dead" ELSE "cancelled"]
    /\ UNCHANGED <<input, output, manifest, ledger, dirs, pages,
                   sessions, startLen, seeds, max_pages, retries,
                   crawled_urls, seen, queue, unfinished, discovered, scheduled,
                   wurl, attempt, last, pushed, admitted, gets, hist, refused>>

(***************************************************************************)
(* worker(): lines 211-261                                                 *)
(***************************************************************************)
Outcomes == {"ok", "miss", "timeout"}

\* what the server may answer to a GET of url: "ok" is status 200 with an
\* HTML body (line 189), "miss" any other response, "timeout" an
\* httpx.TimeoutException or httpx.TransportError (line 191).  Two pages of
\* the site are served reliably, one may miss, one may time out.
Responses(url) ==
    IF url = UB THEN {"ok", "miss"}
    ELSE IF url = UD THEN {"ok", "timeout"}
    ELSE {"ok"}

\* line 212 when it returns: the worker holds the head of the work queue
TakeFrom(w, q) ==
    /\ wpc' = [wpc EXCEPT ![w] = "delay"]
    /\ wurl' = [wurl EXCEPT ![w] = Head(q)]
    /\ queue' = Tail(q)

\* line 261, then line 212: a worker that finds the queue empty waits
Finish(w) ==
    /\ unfinished' = unfinished - 1
    /\ attempt' = [attempt EXCEPT ![w] = 0]
    /\ last' = [last EXCEPT ![w] = "none"]
    /\ IF queue # << >> THEN TakeFrom(w, queue)
       ELSE /\ wpc' = [wpc EXCEPT ![w] = "get"]
            /\ wurl' = [wurl EXCEPT ![w] = << >>]
            /\ queue' = queue

\* line 212: a waiting worker is handed a url
worker_get(w) ==
    /\ wpc[w] = "get"
    /\ queue # << >>
    /\ TakeFrom(w, queue)
    /\ UNCHANGED <<input, output, manifest, ledger, dirs, pages,
                   sessions, startLen, seeds, max_pages, retries,
                   crawled_urls, seen, unfinished, discovered, scheduled, spc,
                   attempt, last, pushed, admitted, gets, hist, refused>>

\* line 215 returns; fetch_with_retries starts its first attempt, line 187
worker_delay(w) ==
    /\ wpc[w] = "delay"
    /\ wpc' = [wpc EXCEPT ![w] = "fetch"]
    /\ attempt' = [attempt EXCEPT ![w] = 0]
    /\ gets' = Bump(gets, wurl[w])
    /\ UNCHANGED <<input, output, manifest, ledger, dirs, pages,
                   sessions, startLen, seeds, max_pages, retries,
                   crawled_urls, seen, queue, unfinished, discovered, scheduled,
                   spc, wurl, last, pushed, admitted, hist, refused>>

\* variants of the retry test: a miss ends the fetch at once; one attempt less
RetriesTimeoutOnly(outcome, att, r) == outcome = "timeout" /\ att < r

RetriesOneLess(outcome, att, r) == outcome # "ok" /\ att + 1 < r

\* fetch_with_retries, lines 188-194: after this outcome of attempt att,
\* is there a backoff sleep and another attempt?
SleepsAndRetries(outcome, att, r) == outcome # "ok" /\ att < r

\* line 187 completes with a "miss" or a "timeout" and attempts remain
worker_retry(w, outcome) ==
    /\ wpc[w] = "fetch"
    /\ outcome \in Responses(wurl[w]) \ {"ok"}
    /\ SleepsAndRetries(outcome, attempt[w], retries)
    /\ wpc' = [wpc EXCEPT ![w] = "backoff"]
    /\ last' = [last EXCEPT ![w] = outcome]
    /\ hist' = Log(hist, wurl[w], outcome)
    /\ UNCHANGED <<input, output, manifest, ledger, dirs, pages,
                   sessions, startLen, seeds, max_pages, retries,
                   crawled_urls, seen, queue, unfinished, discovered, scheduled,
                   spc, wurl, attempt, pushed, admitted, gets, refused>>

\* line 197 returns; the next attempt starts, line 187
worker_backoff(w) ==
    /\ wpc[w] = "backoff"
    /\ wpc' = [wpc EXCEPT ![w] = "fetch"]
    /\ attempt' = [attempt EXCEPT ![w] = @ + 1]
    /\ gets' = Bump(gets, wurl[w])
    /\ UNCHANGED <<input, output, manifest, ledger, dirs, pages,
                   sessions, startLen, seeds, max_pages, retries,
                   crawled_urls, seen, queue, unfinished, discovered, scheduled,
                   spc, wurl, last, pushed, admitted, hist, refused>>

\* variant of the worker: the links of the page are processed after a
\* failed fetch as well
LinkOrdersAlways(url, outcome) == OrdersOf(url)

\* The orders in which lines 251-258 may visit the links after the fetch of
\* url ended with outcome: after a fetch without content the worker goes
\* on with the next item (line 229) and visits none.
LinkOrdersAfter(url, outcome) ==
    IF outcome = "ok" THEN OrdersOf(url) ELSE {<< >>}

\* lines 251-258 for the url of worker w
AdmitLinks(w, outcome) ==
    \E order \in LinkOrdersAfter(wurl[w], outcome) :
        LET st == AdmitAll(order,
                           [seen |-> seen, discovered |-> discovered,
                            refused |-> refused],
                           max_pages, crawled_urls)
        IN  /\ seen' = st.seen
            /\ discovered' = st.discovered
            /\ refused' = st.refused
            /\ admitted' = admitted \cup (st.seen \ seen)

\* line 187 completes with a "miss" or a "timeout" and no attempt remains:
\* fetch_with_retries returns None (line 199), lines 218-229, 261, 212
worker_failed(w, outcome) ==
    /\ wpc[w] = "fetch"
    /\ outcome \in Responses(wurl[w]) \ {"ok"}
    /\ ~SleepsAndRetries(outcome, attempt[w], retries)
    /\ dirs' = dirs \cup {"out_dir"}
    /\ manifest' = WriteLine(manifest, FailedRec(wurl[w]))
    /\ ledger' = Append(ledger, FailedRec(wurl[w]))
    /\ UNCHANGED pages
    /\ AdmitLinks(w, outcome)
    /\ hist' = Log(hist, wurl[w], outcome)
    /\ Finish(w)
    /\ UNCHANGED <<input, output, sessions, startLen, seeds, max_pages, retries,
                   crawled_urls, scheduled, spc, pushed, gets>>

\* line 187 completes with status 200 and an HTML body: lines 189, 232-261, 212
worker_ok(w) ==
    /\ wpc[w] = "fetch"
    /\ "ok" \in Responses(wurl[w])
    /\ dirs' = dirs \cup {"out_dir", "pages_dir"}
    /\ pages' = write_text(pages, FileNameOf(wurl[w]), Html(wurl[w]))
    /\ manifest' = WriteLine(manifest, OkRec(wurl[w]))
    /\ ledger' = Append(ledger, OkRec(wurl[w]))
    /\ AdmitLinks(w, "ok")
    /\ hist' = Log(hist, wurl[w], "ok")
    /\ Finish(w)
    /\ UNCHANGED <<input, output, sessions, startLen, seeds, max_pages, retries, crawled_urls,
                   scheduled, spc, pushed, gets>>

(***************************************************************************)
(* The specification                                                       *)
(***************************************************************************)
Next ==
    \/ \E sds \in SeedLists : main_abort(sds)
    \/ \E sds \in SeedLists, budget \in 0..MaxBudget, r \in 0..MaxRetries :
          crawl_start(sds, budget, r)
    \/ sched_pop
    \/ sched_timeout
    \/ sched_join
    \/ \E w \in Workers : worker_get(w)
    \/ \E w \in Workers : worker_delay(w)
    \/ \E w \in Workers, outcome \in Outcomes : worker_retry(w, outcome)
    \/ \E w \in Workers : worker_backoff(w)
    \/ \E w \in Workers, outcome \in Outcomes : worker_failed(w, outcome)
    \/ \E w \in Workers : worker_ok(w)

Spec == Init /\ [][Next]_vars

(***************************************************************************)
(* normalize_url and is_allowed called on their own                        *)
(***************************************************************************)
crawl_vars ==
    <<manifest, ledger, dirs, pages, sessions, startLen, seeds, max_pages, retries,
      crawled_urls, seen, queue, unfinished, discovered, scheduled, spc, wpc, wurl,
      attempt, last, pushed, admitted, gets, hist, refused>>

\* normalize_url(input), then normalize_url of what that returned; urlparse
\* (line 70) may raise
call_normalize_url ==
    /\ output.calls < 2
    /\ ~output.raised
    /\ \E url \in {IF output.calls = 0 THEN Render(input) ELSE output.once} :
          output' = IF urlparse_raises(strip(url))
                    THEN [output EXCEPT !.raised = TRUE]
                    ELSE IF output.calls = 0
                    THEN [output EXCEPT !.calls = 1, !.once = normalize_url(url)]
                    ELSE [output EXCEPT !.calls = 2, !.twice = normalize_url(url)]
    /\ UNCHANGED <<crawl_vars, input>>

\* is_allowed(input)
call_is_allowed ==
    /\ output.allowed = "none"
    /\ output' = [output EXCEPT
                     !.allowed = IF is_allowed(Render(input)) THEN "yes" ELSE "no"]
    /\ UNCHANGED <<crawl_vars, input>>

InitPure == InitCrawl /\ input \in UrlParts /\ output = NoOutput

NextPure == call_normalize_url \/ call_is_allowed

SpecPure == InitPure /\ [][NextPure]_vars

(***************************************************************************)
(* worker() when the disk fails: OSError leaves the try block of lines     *)
(* 213-259, line 261 runs, the exception ends the task.  Nothing awaits    *)
(* the task before line 333.                                               *)
(***************************************************************************)
\* line 261, then the task ends with the exception
Die(w) ==
    /\ unfinished' = unfinished - 1
    /\ wpc' = [wpc EXCEPT ![w] = "dead"]
    /\ wurl' = [wurl EXCEPT ![w] = << >>]
    /\ attempt' = [attempt EXCEPT ![w] = 0]
    /\ last' = [last EXCEPT ![w] = "none"]

\* line 187 completes with status 200 and HTML, line 235 raises: the page
\* file is left as it was, or created and left empty
worker_page_error(w) ==
    /\ wpc[w] = "fetch"
    /\ "ok" \in Responses(wurl[w])
    /\ dirs' = dirs \cup {"out_dir", "pages_dir"}
    /\ pages' \in {pages, write_text(pages, FileNameOf(wurl[w]), << >>)}
    /\ hist' = Log(hist, wurl[w], "ok")
    /\ Die(w)
    /\ UNCHANGED <<input, output, manifest, ledger, sessions, startLen, seeds, max_pages, retries,
                   crawled_urls, seen, queue, discovered, scheduled, spc, pushed,
                   admitted, gets, refused>>

\* the fetch is over and the append of its record raises: line 227 or 228
\* after a failed fetch, line 247 or 248 after the page was written
worker_append_error(w, outcome) ==
    /\ wpc[w] = "fetch"
    /\ outcome \in Responses(wurl[w])
    /\ ~SleepsAndRetries(outcome, attempt[w], retries)
    /\ dirs' = dirs \cup (IF outcome = "ok" THEN {"out_dir", "pages_dir"} ELSE {"out_dir"})
    /\ pages' = IF outcome = "ok"
                THEN write_text(pages, FileNameOf(wurl[w]), Html(wurl[w]))
                ELSE pages
    /\ hist' = Log(hist, wurl[w], outcome)
    /\ Die(w)
    /\ UNCHANGED <<input, output, manifest, ledger, sessions, startLen, seeds, max_pages, retries,
                   crawled_urls, seen, queue, discovered, scheduled, spc, pushed,
                   admitted, gets, refused>>

NextFault ==
    \/ Next
    \/ \E w \in Workers : worker_page_error(w)
    \/ \E w \in Workers, outcome \in Outcomes : worker_append_error(w, outcome)

SpecFault == Init /\ [][NextFault]_vars

(***************************************************************************)
(* Vocabulary of the properties                                            *)
(***************************************************************************)
\* positions of the records written by the running session
NewIdx == (startLen + 1)..Len(ledger)

\* urls recorded before the running session began
PriorUrls == {ledger[i].url : i \in 1..startLen}

RecCount(u) == Cardinality({i \in NewIdx : ledger[i].url = u})

PushCount(u) == Cardinality({i \in DOMAIN pushed : pushed[i] = u})

GetCount(u) == IF u \in DOMAIN gets THEN gets[u] ELSE 0

Busy(w) == wpc[w] \in {"delay", "fetch", "backoff"}

Holding(u) == \E w \in Workers : Busy(w) /\ wurl[w] = u

Max(a, b) == IF a >= b THEN a ELSE b

\* what extract_links makes of one href of the page at url, before the filter
Resolved(url, href) == normalize_url(urljoin(url, strip(href)))

(***************************************************************************)
(* C1: the session pushes at most max_pages urls onto the work queue,      *)
(* adds at most max_pages urls to seen, and appends at most max_pages      *)
(* records to the manifest.                                                *)
(***************************************************************************)
C1_PageBudget ==
    spc # "idle" =>
        /\ Len(pushed) <= max_pages
        /\ scheduled = Len(pushed)
        /\ Cardinality(admitted) <= max_pages
        /\ Cardinality(seen \ crawled_urls) <= max_pages
        /\ Len(ledger) - startLen <= max_pages

\* a session that used its whole budget on a site with more pages in scope
C1_Witness ==
    /\ spc = "done"
    /\ max_pages >= 2
    /\ Len(ledger) - startLen = max_pages
    /\ Len(pushed) = max_pages
    /\ refused # {}

(***************************************************************************)
(* C2: a url that has a record in the manifest when the session starts is  *)
(* never put on the work queue, never fetched and never recorded again     *)
(* in the session.                                                         *)
(***************************************************************************)
C2_Resumable ==
    \A u \in PriorUrls :
        /\ PushCount(u) = 0
        /\ u \notin Range(queue)
        /\ GetCount(u) = 0
        /\ ~Holding(u)
        /\ RecCount(u) = 0

\* a resumed session that met recorded urls among its seeds and among the
\* links of a page it fetched, one of them recorded as failed
C2_Witness ==
    /\ spc = "done"
    /\ \E i \in 1..startLen : ledger[i].status = "failed"
    /\ \E i \in DOMAIN seeds : normalize_url(seeds[i]) \in PriorUrls
    /\ \E i \in NewIdx : /\ ledger[i].status = "ok"
                         /\ LinksOf(ledger[i].url) \cap PriorUrls # {}

(***************************************************************************)
(* C3: when a session ends having scheduled fewer urls than max_pages,     *)
(* every url it added to seen was scheduled and has a record.              *)
(***************************************************************************)
C3_ExhaustionDetected ==
    (spc = "done" /\ scheduled < max_pages) =>
        \A u \in admitted : PushCount(u) = 1 /\ RecCount(u) = 1

C5_MissNotRetried ==
    /\ \A w \in Workers : wpc[w] = "backoff" => last[w] = "timeout"
    /\ \A u \in DOMAIN hist : \A i \in DOMAIN hist[u] :
          hist[u][i] = "miss" => GetCount(u) = i

(***************************************************************************)
(* C5 amended: a miss is handled like a time-out.  While attempts remain   *)
(* the fetch sleeps its backoff and tries again; a miss on attempt         *)
(* retries + 1 ends the fetch and the url is recorded as failed.           *)
(***************************************************************************)
C5_MissRetriedLikeTimeout ==
    /\ \A w \in Workers :
          wpc[w] = "backoff" => last[w] \in {"miss", "timeout"} /\ attempt[w] < retries
    /\ \A u \in DOMAIN hist : \A i \in DOMAIN hist[u] :
          hist[u][i] = "miss" =>
              IF i <= retries
              THEN \/ GetCount(u) > i
                   \/ \E w \in Workers : wpc[w] = "backoff" /\ wurl[w] = u
              ELSE /\ i = retries + 1
                   /\ GetCount(u) = i
                   /\ \E k \in NewIdx : ledger[k] = FailedRec(u)
                   /\ RecCount(u) = 1

\* a url whose attempts all missed, with at least one retry
C5_Witness ==
    /\ retries >= 1
    /\ \E u \in DOMAIN hist :
          /\ Len(hist[u]) = retries + 1
          /\ \A i \in DOMAIN hist[u] : hist[u][i] = "miss"
          /\ \E k \in NewIdx : ledger[k] = FailedRec(u)

(***************************************************************************)
(* C6: a url whose every attempt times out is fetched retries + 1 times    *)
(* and gets exactly one record, with status failed.                        *)
(***************************************************************************)
C6_RetryBudget ==
    \A u \in DOMAIN hist :
        ((\A i \in DOMAIN hist[u] : hist[u][i] = "timeout") /\ ~Holding(u)) =>
            /\ GetCount(u) = retries + 1
            /\ Len(hist[u]) = retries + 1
            /\ RecCount(u) = 1
            /\ \E k \in NewIdx : ledger[k] = FailedRec(u)
            /\ \A k \in NewIdx : ledger[k] # OkRec(u)

\* a url that timed out on every attempt, with at least one retry
C6_Witness ==
    /\ retries >= 1
    /\ \E u \in DOMAIN hist :
          /\ ~Holding(u)
          /\ Len(hist[u]) = retries + 1
          /\ \A i \in DOMAIN hist[u] : hist[u][i] = "timeout"

(***************************************************************************)
(* C7 as stated: seen never holds more than max_pages urls.                *)
(***************************************************************************)
C7_SeenWithinBudget ==
    spc # "idle" => Cardinality(seen) <= max_pages

(***************************************************************************)
(* C7 amended: seen never holds more urls than the larger of max_pages     *)
(* and the number of urls loaded from the manifest, it holds every loaded  *)
(* url, and no url is removed from it during the session.                  *)
(***************************************************************************)
C7_SeenBound ==
    /\ [](spc # "idle" =>
            /\ Cardinality(seen) <= Max(max_pages, Cardinality(crawled_urls))
            /\ crawled_urls \subseteq seen)
    /\ [][sessions' = sessions => seen \subseteq seen']_vars

\* a resumed session in which seen grew up to the budget
C7_Witness ==
    /\ spc = "done"
    /\ crawled_urls # {}
    /\ admitted # {}
    /\ Cardinality(seen) = max_pages

(***************************************************************************)
(* C8: an unseen url in scope is refused only when the session has         *)
(* already admitted max_pages urls of its own.                             *)
(***************************************************************************)
C8_PriorNotCounted ==
    \A n \in refused : n >= max_pages

(***************************************************************************)
(* C9: no url has two records in the manifest, whatever sessions ran.      *)
(***************************************************************************)
C9_NoDuplicateRecords ==
    \A i, j \in DOMAIN ledger : ledger[i].url = ledger[j].url => i = j

\* a later session, started with a seed that an earlier session recorded
\* and with a failed record in the manifest, that added records of its own
C9_Witness ==
    /\ spc = "done"
    /\ sessions >= 2
    /\ \E i \in DOMAIN seeds : normalize_url(seeds[i]) \in PriorUrls
    /\ \E i \in 1..startLen : ledger[i].status = "failed"
    /\ Len(ledger) > startLen

(***************************************************************************)
(* C10: every url the session adds to seen, queues, fetches or records     *)
(* passes is_allowed.                                                      *)
(***************************************************************************)
C10_Scope ==
    \A u \in admitted \cup Range(discovered) \cup Range(queue) \cup Range(pushed)
             \cup DOMAIN gets \cup DOMAIN hist
             \cup {wurl[w] : w \in {x \in Workers : Busy(x)}}
             \cup {ledger[i].url : i \in NewIdx} :
        is_allowed(u)

\* a session with a seed out of scope that fetched a page holding links
\* out of scope
C10_Witness ==
    /\ spc = "done"
    /\ \E i \in DOMAIN seeds : seeds[i] # << >> /\ ~is_allowed(normalize_url(seeds[i]))
    /\ \E i \in NewIdx :
          /\ ledger[i].status = "ok"
          /\ \E k \in DOMAIN Html(ledger[i].url) :
                ~is_allowed(Resolved(ledger[i].url, Html(ledger[i].url)[k]))

(***************************************************************************)
(* C11: the manifest file is at all times a sequence of complete lines,    *)
(* each the JSON text of one record followed by its newline, and reading   *)
(* it back gives the records that were appended, in order; every step      *)
(* leaves the file alone or appends exactly one such line.                 *)
(***************************************************************************)
C11_WholeLines ==
    /\ [](/\ \A i \in DOMAIN manifest :
                manifest[i].kind = (IF i % 2 = 1 THEN "json" ELSE "nl")
          /\ ManifestRecords(manifest) = ledger)
    /\ [][\/ manifest' = manifest
          \/ \E w \in Workers :
                /\ wpc[w] = "fetch"
                /\ manifest' \in {manifest \o <<Json(rec), NL>>
                                    : rec \in {OkRec(wurl[w]), FailedRec(wurl[w])}}]_vars

\* every worker holds a url, one of them about to append its record, in a
\* session that has already appended a record
C11_Witness ==
    /\ \A w \in Workers : Busy(w)
    /\ Len(ledger) - startLen >= 1
    /\ \E w \in Workers : wpc[w] = "fetch"

(***************************************************************************)
(* C12: a run whose seeds all fail the filter ends without a fetch and     *)
(* leaves the output directory as it found it: no directory and no file    *)
(* is created or modified.                                                 *)
(***************************************************************************)
C12_AbortTouchesNothing ==
    [][spc' = "aborted" /\ sessions' # sessions =>
          /\ gets' = << >>
          /\ \A w \in Workers : wpc'[w] = "cancelled"
          /\ manifest' = manifest
          /\ pages' = pages
          /\ dirs' = dirs]_vars

(***************************************************************************)
(* C13: a session in which a write to the disk failed does not end         *)
(* reporting normal completion, and once a worker is gone no further url   *)
(* is fetched in the session.                                              *)
(***************************************************************************)
C13_DiskFailureFatal ==
    /\ [](spc = "done" => \A w \in Workers : wpc[w] # "dead")
    /\ [][(sessions' = sessions /\ \E w \in Workers : wpc[w] = "dead") =>
             /\ gets' = gets
             /\ pushed' = pushed]_vars

(***************************************************************************)
(* C14: for every record with status ok, the file named by its path        *)
(* exists and holds the whole content that was fetched for the record's    *)
(* url, in every state from the one in which the record appears.           *)
(***************************************************************************)
C14_OkRecordHasPage ==
    \A i \in DOMAIN ledger :
        ledger[i].status = "ok" =>
            /\ ledger[i].path \in DOMAIN pages
            /\ pages[ledger[i].path] = Html(ledger[i].url)
            /\ ledger[i].bytes = Len(pages[ledger[i].path])

\* two pages whose urls end in the same segment were both stored
C14_Witness ==
    \E i, j \in DOMAIN ledger :
        /\ ledger[i].status = "ok" /\ ledger[j].status = "ok"
        /\ ledger[i].url # ledger[j].url
        /\ ledger[i].path.slug = ledger[j].path.slug
        /\ Html(ledger[i].url) # Html(ledger[j].url)

(***************************************************************************)
(* C15: the section in a record with status ok is the section the cleaner  *)
(* derives from the name of the record's page file.                        *)
(***************************************************************************)
C15_SectionsAgree ==
    \A i \in DOMAIN ledger :
        ledger[i].status = "ok" =>
            ledger[i].section = classify_section_from_path(ledger[i].path)

(***************************************************************************)
(* C16: normalize_url applied to its own result returns that result.       *)
(***************************************************************************)
C16_Idempotent ==
    output.calls = 2 => output.twice = output.once

\* the path of a url string ends in "." and a listed extension, in any case
EndsInAssetExtension(path) ==
    /\ Len(path) >= 2
    /\ LowerStr(SubSeq(path, Len(path) - 1, Len(path)))
           \in {<<".", e>> : e \in AssetExtensions}

(***************************************************************************)
(* C17: is_allowed is true exactly for the strings whose host is the       *)
(* allowed host, whose path starts with the allowed prefix and whose path  *)
(* does not end in a listed asset extension.                               *)
(***************************************************************************)
C17_AllowedIff ==
    output.allowed # "none" =>
        (output.allowed = "yes" <=>
            /\ input.host = ALLOWED_HOST
            /\ StartsWith(input.path, ALLOWED_PREFIX)
            /\ ~EndsInAssetExtension(input.path))

(***************************************************************************)
(* C18: every url taken from the work queue is marked done exactly once,   *)
(* so the counter of unfinished items is the number of urls queued or      *)
(* held by a worker; and a running session can always still end: while     *)
(* urls wait in the work queue there is a worker to take them.             *)
(***************************************************************************)
C18_DrainCanEnd ==
    /\ unfinished = Len(queue) + Cardinality({w \in Workers : Busy(w)})
    /\ (spc \in {"wait", "join"} /\ queue # << >>) =>
           \E w \in Workers : wpc[w] # "dead"

\* number of times u stands in the discovered queue
WaitCount(u) == Cardinality({i \in DOMAIN discovered : discovered[i] = u})

C20_AdmittedOnce ==
    \A u \in Range(discovered) \cup Range(pushed) :
        /\ WaitCount(u) + PushCount(u) = 1
        /\ u \in admitted
        /\ u \in seen

\* a worker is in the fetch of a page that links to a url which is no seed
\* and which the page of another fetch has put on the discovered queue
\* in the same session
C20_Witness ==
    \E w \in Workers, i \in NewIdx :
        /\ wpc[w] = "fetch"
        /\ ledger[i].status = "ok"
        /\ ledger[i].url # wurl[w]
        /\ \E link \in LinksOf(wurl[w]) \cap LinksOf(ledger[i].url) :
              /\ link \notin Range(seeds)
              /\ WaitCount(link) + PushCount(link) = 1
        /\ GetCount(wurl[w]) >= 1

(***************************************************************************)
(* C21: the step that appends a failed record appends that one record for  *)
(* the url its worker holds and changes neither seen nor the discovered    *)
(* queue nor the page files; the worker marks the item done and takes the  *)
(* next url of the work queue, or waits for one.                           *)
(***************************************************************************)
C21_FailedFetchFrame ==
    [][(/\ Len(ledger') = Len(ledger) + 1
        /\ ledger'[Len(ledger')].status = "failed") =>
          \E w \in Workers :
              /\ wpc[w] = "fetch"
              /\ ledger' = Append(ledger, FailedRec(wurl[w]))
              /\ manifest' = WriteLine(manifest, FailedRec(wurl[w]))
              /\ seen' = seen
              /\ admitted' = admitted
              /\ discovered' = discovered
              /\ pages' = pages
              /\ ("pages_dir" \in dirs') = ("pages_dir" \in dirs)
              /\ unfinished' = unfinished - 1
              /\ IF queue # << >>
                 THEN wpc'[w] = "delay" /\ wurl'[w] = Head(queue)
                 ELSE wpc'[w] = "get"]_vars

\* a url of the session is recorded as failed, a link of its page is not
\* in seen although the budget has room, no file is stored for it, and a
\* later record of the session follows
C21_Witness ==
    \E i \in NewIdx :
        /\ ledger[i].status = "failed"
        /\ i < Len(ledger)
        /\ FileNameOf(ledger[i].url) \notin DOMAIN pages
        /\ \E link \in LinksOf(ledger[i].url) : link \notin seen
        /\ Cardinality(seen) < max_pages

(***************************************************************************)
(* C22: every url that waits on the discovered queue, waits on the work    *)
(* queue, is held by a worker or is recorded by the session is in seen.    *)
(* Within a session the stage of a url never decreases and grows by one    *)
(* at a time; when a session starts every url is unseen or discovered.  A  *)
(* url is added to seen during the session only in the step that appends   *)
(* the ok record of a page that links to it, the page's file being stored. *)
(***************************************************************************)
\* 0 unseen, 1 discovered, 2 scheduled, 3 fetching, 4 persisted
Stage(u) ==
    IF RecCount(u) > 0 THEN 4
    ELSE IF Holding(u) THEN 3
    ELSE IF u \in Range(queue) THEN 2
    ELSE IF u \in Range(discovered) THEN 1
    ELSE 0

C22_CausalOrder ==
    /\ [](\A u \in DOMAIN Site \cup Range(discovered) \cup Range(queue) :
             Stage(u) > 0 => u \in seen)
    /\ [][\A u \in DOMAIN Site \cup seen \cup seen' :
             IF sessions' = sessions
             THEN /\ Stage(u)' \in {Stage(u), Stage(u) + 1}
                  /\ (u \in seen' /\ u \notin seen) =>
                        /\ Len(ledger') = Len(ledger) + 1
                        /\ ledger'[Len(ledger')].status = "ok"
                        /\ u \in LinksOf(ledger'[Len(ledger')].url)
                        /\ FileNameOf(ledger'[Len(ledger')].url) \in DOMAIN pages'
                        /\ Stage(u) = 0
                        /\ Stage(u)' = 1
             ELSE Stage(u)' \in {0, 1}]_vars

\* a url that is no seed was admitted from a page of the session, pushed
\* once, taken by a worker and recorded, while another url still waits on
\* an earlier stage
C22_Witness ==
    \E u \in admitted :
        /\ u \notin Range(AllowedSeeds[seeds])
        /\ PushCount(u) = 1
        /\ GetCount(u) >= 1
        /\ Stage(u) = 4
        /\ \E v \in seen : Stage(v) \in 1..3

(***************************************************************************)
(* C23: the urls loaded from the ledger at the start of the session are in *)
(* seen and none of them is on the discovered queue; every step that takes *)
(* a url from the discovered queue appends it to the work queue and counts *)
(* it in scheduled and in the unfinished items.                            *)
(***************************************************************************)
C23_DiscardNeverTaken ==
    /\ [](/\ crawled_urls \subseteq seen
          /\ Range(discovered) \cap crawled_urls = {})
    /\ [][(sessions' = sessions /\ Len(discovered') < Len(discovered)) =>
             /\ discovered' = Tail(discovered)
             /\ Head(discovered) \notin crawled_urls
             /\ queue' = Append(queue, Head(discovered))
             /\ pushed' = Append(pushed, Head(discovered))
             /\ scheduled' = scheduled + 1
             /\ unfinished' = unfinished + 1]_vars

\* a resumed session: the ledger held urls at the start, one of them is a
\* seed of the session or a link of a page the session recorded, and the
\* scheduler has moved a url to the work queue
C23_Witness ==
    /\ crawled_urls # {}
    /\ scheduled >= 1
    /\ Range(AllowedSeeds[seeds]) \cap crawled_urls # {}
    /\ \E i \in NewIdx :
          /\ ledger[i].status = "ok"
          /\ LinksOf(ledger[i].url) \cap crawled_urls # {}

====
